---- MODULE Spec2Model ----
(***************************************************************************)
(* Event log endpoints of the REST API                                     *)
(* (airflow/api_connexion/endpoints/event_log_endpoint.py).                *)
(*                                                                         *)
(* The log table is a sequence of rows in insertion order.  A request is   *)
(* served by get_event_log (one step) or by get_event_logs (two steps: the *)
(* count query, then the sorted page query), and another process may       *)
(* insert a row at any moment, also between the two queries.               *)
(*                                                                         *)
(* Optional values are <<>> (None) or <<v>>.  Event names, comma separated *)
(* event lists and order_by are sequences of characters/tokens so that     *)
(* split and lstrip are computed, not assumed.                             *)
(***************************************************************************)
EXTENDS Integers, Sequences, FiniteSets, TLC

VARIABLES store, pc, req, resp, snap, walk

vars == <<store, pc, req, resp, snap, walk>>

(* ------------------------------ bounds -------------------------------- *)

\* rows the log table may hold
MaxStore == 2
\* request parameters given a value other than their default at once
MaxParams == 2
\* [api] maximum_page_limit
MaximumPageLimit == 2

(* ------------------------------ values -------------------------------- *)

None == <<>>
Some(v) == <<v>>
Val(o) == o[1]

Range(s) == {s[i] : i \in 1 .. Len(s)}

Min(a, b) == IF a < b THEN a ELSE b

\* Python truthiness of an optional str / int / character sequence
bool_str(o) == o # None /\ Val(o) # ""
bool_int(o) == o # None /\ Val(o) # 0
bool_chars(o) == o # None /\ Val(o) # <<>>

(* --------------------------- the log table ---------------------------- *)

\* the rows other processes write, but for their id
Kinds ==
  { [dttm |-> 1, dag_id |-> Some("d1"), task_id |-> Some("t1"),
     run_id |-> Some("r1"), map_index |-> Some(0), try_number |-> Some(1),
     owner |-> Some("o1"), event |-> <<"a">>],
    [dttm |-> 1, dag_id |-> Some("d1"), task_id |-> Some("t1"),
     run_id |-> Some("r1"), map_index |-> Some(1), try_number |-> Some(0),
     owner |-> Some("o1"), event |-> <<"b">>],
    [dttm |-> 2, dag_id |-> None, task_id |-> None,
     run_id |-> None, map_index |-> None, try_number |-> None,
     owner |-> None, event |-> <<"c">>] }

Row(id, k) ==
  [id |-> id, dttm |-> k.dttm, dag_id |-> k.dag_id, task_id |-> k.task_id,
   run_id |-> k.run_id, map_index |-> k.map_index,
   try_number |-> k.try_number, owner |-> k.owner, event |-> k.event]

LastDttm(st) == IF Len(st) = 0 THEN 1 ELSE st[Len(st)].dttm

(* ------------------------- request parameters ------------------------- *)

\* every optional parameter at its default; limit, which the handler
\* requires, at the smallest page
NoParams ==
  [dag_id |-> None, task_id |-> None, run_id |-> None, map_index |-> None,
   try_number |-> None, owner |-> None, event |-> None,
   excluded_events |-> None, included_events |-> None,
   before |-> None, after |-> None,
   limit |-> 1, offset |-> None, order_by |-> <<"event_log_id">>]

ParamChoices ==
  << [name |-> "dag_id", val |-> Some("d1")],
     [name |-> "dag_id", val |-> Some("")],
     [name |-> "task_id", val |-> Some("t1")],
     [name |-> "run_id", val |-> Some("r1")],
     [name |-> "map_index", val |-> Some(0)],
     [name |-> "map_index", val |-> Some(1)],
     [name |-> "try_number", val |-> Some(0)],
     [name |-> "try_number", val |-> Some(1)],
     [name |-> "owner", val |-> Some("o1")],
     [name |-> "event", val |-> Some(<<"a">>)],
     [name |-> "included_events", val |-> Some(<<"a", ",", "b">>)],
     [name |-> "excluded_events", val |-> Some(<<"b", ",", "c">>)],
     [name |-> "before", val |-> Some("T2")],
     [name |-> "before", val |-> Some("bad")],
     [name |-> "after", val |-> Some("T1")],
     [name |-> "offset", val |-> Some(1)],
     [name |-> "limit", val |-> 2],
     [name |-> "limit", val |-> MaximumPageLimit + 1],
     [name |-> "order_by", val |-> <<"-", "when">>],
     [name |-> "order_by", val |-> <<"dag_id">>],
     [name |-> "order_by", val |-> <<"bogus">>] >>

RECURSIVE WithParams(_)
WithParams(n) ==
  IF n = 0 THEN {NoParams}
  ELSE LET S == WithParams(n - 1)
       IN  S \cup {[q EXCEPT ![ParamChoices[i].name] = ParamChoices[i].val] :
                     q \in S, i \in 1 .. Len(ParamChoices)}

ParamSpace == WithParams(MaxParams)

EventLogIds == 1 .. MaxStore + 1

(* ------------------- helpers of the standard library ------------------- *)

\* str.split(sep)
RECURSIVE split(_, _)
split(s, sep) ==
  IF \A i \in 1 .. Len(s) : s[i] # sep THEN <<s>>
  ELSE LET i == CHOOSE k \in 1 .. Len(s) :
                  s[k] = sep /\ \A j \in 1 .. k - 1 : s[j] # sep
       IN  <<SubSeq(s, 1, i - 1)>> \o split(SubSeq(s, i + 1, Len(s)), sep)

\* str.lstrip(ch)
RECURSIVE lstrip(_, _)
lstrip(s, ch) == IF s # <<>> /\ Head(s) = ch THEN lstrip(Tail(s), ch) ELSE s

(* ----------------------- external collaborators ------------------------ *)

\* timezone.parse: the instant a timestamp string denotes
ParseTable == [T1 |-> 1, T2 |-> 2]
parse_ok(s) == s \in DOMAIN ParseTable
parse(s) == ParseTable[s]

\* check_limit: a limit above the configured maximum is capped
check_limit(limit) ==
  IF limit > MaximumPageLimit THEN MaximumPageLimit ELSE limit

\* session.get(Log, id): the row with that primary key, or None
session_get(st, event_log_id) ==
  IF \E i \in 1 .. Len(st) : st[i].id = event_log_id
  THEN Some(st[CHOOSE i \in 1 .. Len(st) : st[i].id = event_log_id])
  ELSE None

\* get_query_count: SELECT count(*) over the query's rows
get_query_count(rows) == Cardinality(rows)

Result(status, detail, event_logs, total_entries, trace) ==
  [status |-> status, detail |-> detail, event_logs |-> event_logs,
   total_entries |-> total_entries, trace |-> trace]

\* provide_session: the session is created on entry and closed on exit,
\* whether the wrapped call returns or raises
session_enter(r) == [r EXCEPT !.trace = <<"session_open">> \o @]
session_exit(r) == [r EXCEPT !.trace = @ \o <<"session_close">>]
provide_session(r) == session_exit(session_enter(r))

\* security.requires_access_dag: the wrapped call runs only when allowed
requires_access_dag(allowed, r) ==
  IF allowed THEN [r EXCEPT !.trace = <<"authorize">> \o @]
  ELSE Result("403", "Forbidden", <<>>, 0, <<"authorize">>)

(* ------------------------------ sorting -------------------------------- *)

to_replace == [event_log_id |-> "id", when |-> "dttm"]

allowed_sort_attrs ==
  <<"event_log_id", "when", "dag_id", "task_id", "run_id", "event",
    "execution_date", "owner", "extra">>

StrCollation == <<"d1", "o1", "r1", "t1">>
EventCollation == << <<"a">>, <<"b">>, <<"c">> >>

\* rank of a column value in the ORDER BY; NULL sorts first and the columns
\* the rows do not carry (execution_date, extra) are NULL in every row
SortKey(r, col) ==
  CASE col = "id" -> r.id
    [] col = "dttm" -> r.dttm
    [] col \in {"dag_id", "task_id", "run_id", "owner"} ->
         IF r[col] = None THEN 0
         ELSE CHOOSE i \in 1 .. Len(StrCollation) : StrCollation[i] = Val(r[col])
    [] col = "event" ->
         CHOOSE i \in 1 .. Len(EventCollation) : EventCollation[i] = r.event
    [] OTHER -> 0

sort_allowed(order_by) ==
  LET lstriped_orderby == lstrip(order_by, "-")
  IN  /\ Len(lstriped_orderby) = 1
      /\ lstriped_orderby[1] \in Range(allowed_sort_attrs)

sort_column(order_by) ==
  LET name == lstrip(order_by, "-")[1]
  IN  IF name \in DOMAIN to_replace THEN to_replace[name] ELSE name

sort_desc(order_by) == order_by[1] = "-"

\* apply_sorting + execution: ORDER BY one column; the order of rows that
\* tie on that column is whatever the database produces for this query
apply_sorting(rows, order_by) ==
  LET n == Cardinality(rows)
      col == sort_column(order_by)
      desc == sort_desc(order_by)
  IN  {s \in [1 .. n -> rows] :
         /\ \A i, j \in 1 .. n : i # j => s[i] # s[j]
         /\ \A i, j \in 1 .. n :
              i < j => IF desc THEN SortKey(s[i], col) >= SortKey(s[j], col)
                       ELSE SortKey(s[i], col) <= SortKey(s[j], col)}

\* query.offset(offset).limit(limit)
Page(rows, offset, limit) ==
  LET off == IF offset = None THEN 0 ELSE Val(offset)
      hi == Min(Len(rows), off + limit)
  IN  IF off + 1 > hi THEN <<>> ELSE SubSeq(rows, off + 1, hi)

(* ------------------------------ handlers ------------------------------- *)

\* Where with the time bounds made inclusive
Where_inclusive(r, p) ==
  /\ bool_str(p.dag_id) => r.dag_id = Some(Val(p.dag_id))
  /\ bool_str(p.task_id) => r.task_id = Some(Val(p.task_id))
  /\ bool_str(p.run_id) => r.run_id = Some(Val(p.run_id))
  /\ bool_int(p.map_index) => r.map_index = Some(Val(p.map_index))
  /\ bool_int(p.try_number) => r.try_number = Some(Val(p.try_number))
  /\ bool_str(p.owner) => r.owner = Some(Val(p.owner))
  /\ bool_chars(p.event) => r.event = Val(p.event)
  /\ bool_chars(p.included_events) =>
       r.event \in Range(split(Val(p.included_events), ","))
  /\ bool_chars(p.excluded_events) =>
       r.event \notin Range(split(Val(p.excluded_events), ","))
  /\ bool_str(p.before) => r.dttm <= parse(Val(p.before))
  /\ bool_str(p.after) => r.dttm >= parse(Val(p.after))

\* Where with the integer filters tested with "is not None"
Where_is_not_none(r, p) ==
  /\ bool_str(p.dag_id) => r.dag_id = Some(Val(p.dag_id))
  /\ bool_str(p.task_id) => r.task_id = Some(Val(p.task_id))
  /\ bool_str(p.run_id) => r.run_id = Some(Val(p.run_id))
  /\ p.map_index # None => r.map_index = Some(Val(p.map_index))
  /\ p.try_number # None => r.try_number = Some(Val(p.try_number))
  /\ bool_str(p.owner) => r.owner = Some(Val(p.owner))
  /\ bool_chars(p.event) => r.event = Val(p.event)
  /\ bool_chars(p.included_events) =>
       r.event \in Range(split(Val(p.included_events), ","))
  /\ bool_chars(p.excluded_events) =>
       r.event \notin Range(split(Val(p.excluded_events), ","))
  /\ bool_str(p.before) => r.dttm < parse(Val(p.before))
  /\ bool_str(p.after) => r.dttm > parse(Val(p.after))

\* the WHERE clause get_event_logs builds: one conjunct per truthy filter
Where(r, p) ==
  /\ bool_str(p.dag_id) => r.dag_id = Some(Val(p.dag_id))
  /\ bool_str(p.task_id) => r.task_id = Some(Val(p.task_id))
  /\ bool_str(p.run_id) => r.run_id = Some(Val(p.run_id))
  /\ bool_int(p.map_index) => r.map_index = Some(Val(p.map_index))
  /\ bool_int(p.try_number) => r.try_number = Some(Val(p.try_number))
  /\ bool_str(p.owner) => r.owner = Some(Val(p.owner))
  /\ bool_chars(p.event) => r.event = Val(p.event)
  /\ bool_chars(p.included_events) =>
       r.event \in Range(split(Val(p.included_events), ","))
  /\ bool_chars(p.excluded_events) =>
       r.event \notin Range(split(Val(p.excluded_events), ","))
  /\ bool_str(p.before) => r.dttm < parse(Val(p.before))
  /\ bool_str(p.after) => r.dttm > parse(Val(p.after))

\* timezone.parse raises while the query is being built
bad_timestamp(p) ==
  \/ bool_str(p.before) /\ ~parse_ok(Val(p.before))
  \/ bool_str(p.after) /\ ~parse_ok(Val(p.after))

\* the rows the filtered query selects
FilteredQuery(st, p) == {r \in Range(st) : Where(r, p)}

\* page_query rebuilt from select(Log), the filters lost
page_query_unfiltered(st, p) == Range(st)

\* the query the page is read from: the filtered query, sorted
page_query(st, p) == FilteredQuery(st, p)

\* get_event_log without the None test: a missing row is dumped
get_event_log_unchecked(allowed, st, event_log_id) ==
  requires_access_dag(allowed,
    provide_session(
      LET event_log == session_get(st, event_log_id)
      IN  Result("200", "", event_log, 0, <<"query_get">>)))

\* get_event_log with the access check made on the row once it is read
get_event_log_check_after(allowed, st, event_log_id) ==
  LET r == provide_session(
             LET event_log == session_get(st, event_log_id)
             IN  IF event_log = None
                 THEN Result("404", "Event Log not found", <<>>, 0, <<"query_get">>)
                 ELSE Result("200", "", <<Val(event_log)>>, 0, <<"query_get">>))
  IN  IF allowed THEN [r EXCEPT !.trace = @ \o <<"authorize">>]
      ELSE Result("403", "Forbidden", <<>>, 0, r.trace \o <<"authorize">>)

\* get_event_log with its decorators
get_event_log(allowed, st, event_log_id) ==
  requires_access_dag(allowed,
    provide_session(
      LET event_log == session_get(st, event_log_id)
      IN  IF event_log = None
          THEN Result("404", "Event Log not found", <<>>, 0, <<"query_get">>)
          ELSE Result("200", "", <<Val(event_log)>>, 0, <<"query_get">>)))

\* get_event_logs up to and including the count query; "pending" when the
\* handler goes on to the page query with its session still open
get_event_logs_count(allowed, st, p) ==
  requires_access_dag(allowed,
    IF bad_timestamp(p)
    THEN provide_session(Result("400", "Bad timestamp", <<>>, 0, <<>>))
    ELSE session_enter(
           Result("pending", "", <<>>,
                  get_query_count(FilteredQuery(st, p)), <<"query_count">>)))

\* get_event_logs_page closing its session only when it returns
get_event_logs_page_leak(c, st, p) ==
  IF ~sort_allowed(p.order_by)
  THEN {Result("400", "Ordering is disallowed", <<>>, 0, c.trace)}
  ELSE {session_exit(
          Result("200", "", Page(rows, p.offset, check_limit(p.limit)),
                 c.total_entries, c.trace \o <<"query_page">>)) :
          rows \in apply_sorting(page_query(st, p), p.order_by)}

\* get_event_logs from apply_sorting to the response: the responses the
\* page query can produce on table st after count phase c
get_event_logs_page(c, st, p) ==
  IF ~sort_allowed(p.order_by)
  THEN {session_exit(Result("400", "Ordering is disallowed", <<>>, 0, c.trace))}
  ELSE {session_exit(
          Result("200", "", Page(rows, p.offset, check_limit(p.limit)),
                 c.total_entries, c.trace \o <<"query_page">>)) :
          rows \in apply_sorting(page_query(st, p), p.order_by)}

\* get_event_logs on a table that does not change during the request:
\* every response the handler can produce
get_event_logs(allowed, st, p) ==
  LET c == get_event_logs_count(allowed, st, p)
  IN  IF c.status # "pending" THEN {c} ELSE get_event_logs_page(c, st, p)

(* ------------------------------- state --------------------------------- *)

\* store: the log table; pc/req/resp: the request being served and its
\* response so far; snap: the table as the count query and the page query
\* saw it; walk: the pages a client has collected so far while paging
\* through one listing (p is the request for the next page)
NoRequest == [op |-> "none", allowed |-> FALSE, event_log_id |-> 0, p |-> NoParams]
NoResponse == Result("none", "", <<>>, 0, <<>>)
NoSnap == [count |-> <<>>, page |-> <<>>]
NoWalk == [on |-> FALSE, p |-> NoParams, rows |-> <<>>]

OffsetOf(p) == IF p.offset = None THEN 0 ELSE Val(p.offset)

Init ==
  /\ store = <<>>
  /\ pc = "idle"
  /\ req = NoRequest
  /\ resp = NoResponse
  /\ snap = NoSnap
  /\ walk = NoWalk

\* another process appends an audit row (a row written once the response
\* is computed is taken after EndRequest: it cannot change the response)
InsertLog(k) ==
  /\ pc # "done"
  /\ Len(store) < MaxStore
  /\ k.dttm >= LastDttm(store)
  /\ store' = Append(store, Row(Len(store) + 1, k))
  /\ walk' = NoWalk
  /\ UNCHANGED <<pc, req, resp, snap>>

\* GET /eventLogs/{event_log_id}
GetEventLog(allowed, event_log_id) ==
  /\ pc = "idle"
  /\ req' = [op |-> "get_event_log", allowed |-> allowed,
             event_log_id |-> event_log_id, p |-> NoParams]
  /\ resp' = get_event_log(allowed, store, event_log_id)
  /\ snap' = [count |-> store, page |-> store]
  /\ pc' = "done"
  /\ walk' = NoWalk
  /\ UNCHANGED store

\* GET /eventLogs, first half: decorators, filters, count query
GetEventLogsBegin(allowed, p) ==
  /\ pc = "idle"
  /\ LET c == get_event_logs_count(allowed, store, p)
     IN  /\ req' = [op |-> "get_event_logs", allowed |-> allowed,
                    event_log_id |-> 0, p |-> p]
         /\ resp' = c
         /\ snap' = [count |-> store, page |-> store]
         /\ pc' = IF c.status = "pending" THEN "counted" ELSE "done"
         /\ walk' = IF c.status # "pending" THEN NoWalk
                    ELSE IF walk.on /\ walk.p = p THEN walk
                    ELSE IF OffsetOf(p) = 0
                         THEN [on |-> TRUE, p |-> p, rows |-> <<>>]
                    ELSE NoWalk
  /\ UNCHANGED store

\* GET /eventLogs, second half: apply_sorting, page query, response
GetEventLogsFinish ==
  /\ pc = "counted"
  /\ \E r \in get_event_logs_page(resp, store, req.p) :
       /\ resp' = r
       /\ walk' = IF r.status = "200" /\ walk.on
                  THEN [on |-> TRUE,
                        p |-> [req.p EXCEPT
                                 !.offset = Some(OffsetOf(req.p) + req.p.limit)],
                        rows |-> walk.rows \o r.event_logs]
                  ELSE NoWalk
  /\ snap' = [snap EXCEPT !.page = store]
  /\ pc' = "done"
  /\ UNCHANGED <<store, req>>

\* the response is delivered; a client paging through a listing goes on
\* while the reported total says rows are left
EndRequest ==
  /\ pc = "done"
  /\ pc' = "idle"
  /\ req' = NoRequest
  /\ resp' = NoResponse
  /\ snap' = NoSnap
  /\ walk' = IF walk.on /\ OffsetOf(walk.p) < resp.total_entries
             THEN walk ELSE NoWalk
  /\ UNCHANGED store

Next ==
  \/ \E k \in Kinds : InsertLog(k)
  \/ ~walk.on /\ \E allowed \in BOOLEAN, id \in EventLogIds :
                   GetEventLog(allowed, id)
  \/ ~walk.on /\ \E allowed \in BOOLEAN, p \in ParamSpace :
                   GetEventLogsBegin(allowed, p)
  \/ walk.on /\ GetEventLogsBegin(TRUE, walk.p)
  \/ GetEventLogsFinish
  \/ EndRequest

Spec == Init /\ [][Next]_vars

(* ------------------------------- claims -------------------------------- *)

Queries == {"query_get", "query_count", "query_page"}

Count(tr, e) == Cardinality({i \in 1 .. Len(tr) : tr[i] = e})

Listing == pc = "done" /\ req.op = "get_event_logs"

\* no row was written between the count query and the page query
Static == snap.count = snap.page

\* C1: get_event_log(i) returns the stored row whose id is i when there is
\* one, and otherwise fails with Not-Found "Event Log not found" and
\* returns no row.
C1_LookupByIdentifier ==
  (pc = "done" /\ req.op = "get_event_log" /\ req.allowed) =>
    IF \E r \in Range(snap.count) : r.id = req.event_log_id
    THEN /\ resp.status = "200"
         /\ Len(resp.event_logs) = 1
         /\ resp.event_logs[1] \in Range(snap.count)
         /\ resp.event_logs[1].id = req.event_log_id
    ELSE /\ resp.status = "404"
         /\ resp.detail = "Event Log not found"
         /\ resp.event_logs = <<>>

C1_Witness ==
  /\ pc = "done" /\ req.op = "get_event_log" /\ req.allowed
  /\ req.event_log_id = 2
  /\ resp.status = "200"
  /\ resp.event_logs[1].id = 2

\* a filter is supplied when the request gives it a value (an empty string
\* carries none); the predicate it stands for
SatisfiesSupplied(r, p) ==
  /\ p.dag_id # None /\ Val(p.dag_id) # "" => r.dag_id = p.dag_id
  /\ p.task_id # None /\ Val(p.task_id) # "" => r.task_id = p.task_id
  /\ p.run_id # None /\ Val(p.run_id) # "" => r.run_id = p.run_id
  /\ p.map_index # None => r.map_index = p.map_index
  /\ p.try_number # None => r.try_number = p.try_number
  /\ p.owner # None /\ Val(p.owner) # "" => r.owner = p.owner
  /\ p.event # None /\ Val(p.event) # <<>> => r.event = Val(p.event)
  /\ p.included_events # None /\ Val(p.included_events) # <<>> =>
       \E i \in 1 .. Len(split(Val(p.included_events), ",")) :
         r.event = split(Val(p.included_events), ",")[i]
  /\ p.excluded_events # None /\ Val(p.excluded_events) # <<>> =>
       \A i \in 1 .. Len(split(Val(p.excluded_events), ",")) :
         r.event # split(Val(p.excluded_events), ",")[i]
  /\ p.before # None /\ Val(p.before) # "" => r.dttm < parse(Val(p.before))
  /\ p.after # None /\ Val(p.after) # "" => r.dttm > parse(Val(p.after))

\* C2: on a table that does not change during the request, total_entries
\* is the number of stored rows that satisfy all supplied filters.
C2_TotalCountsSuppliedFilters ==
  (Listing /\ resp.status = "200" /\ Static) =>
    resp.total_entries =
      Cardinality({r \in Range(snap.count) : SatisfiesSupplied(r, req.p)})

\* C3: every row of the returned page satisfies every supplied filter.
C3_PageSatisfiesSuppliedFilters ==
  (Listing /\ resp.status = "200") =>
    \A i \in 1 .. Len(resp.event_logs) :
      SatisfiesSupplied(resp.event_logs[i], req.p)

\* the client has asked for pages until the reported total was covered
WalkComplete ==
  Listing /\ resp.status = "200" /\ walk.on
  /\ OffsetOf(walk.p) >= resp.total_entries

\* C4: on a static table the pages at offset 0, L, 2L, ... with limit L hold
\* every matching row exactly once: no row twice, and none missing once the
\* pages are all read, also when rows tie on the sort key.
C4_PagesPartitionMatches ==
  walk.on =>
    /\ \A i, j \in 1 .. Len(walk.rows) : i # j => walk.rows[i] # walk.rows[j]
    /\ WalkComplete => Range(walk.rows) = FilteredQuery(store, req.p)

\* C5: a request whose order_by is not an allowed sort field fails with
\* Bad-Request and has executed no query, the count query included.
C5_BadOrderByRunsNoQuery ==
  (Listing /\ req.allowed /\ ~sort_allowed(req.p.order_by)) =>
    /\ resp.status = "400"
    /\ \A i \in 1 .. Len(resp.trace) : resp.trace[i] \notin Queries

\* C6: every query of a request comes after its authorization check, and a
\* denied request ends Forbidden without any query.
C6_AuthorizationBeforeQuery ==
  /\ \A i \in 1 .. Len(resp.trace) :
       resp.trace[i] \in Queries =>
         \E j \in 1 .. i - 1 : resp.trace[j] = "authorize"
  /\ (pc = "done" /\ ~req.allowed) =>
       /\ resp.status = "403"
       /\ \A i \in 1 .. Len(resp.trace) : resp.trace[i] \notin Queries

C6_Witness ==
  /\ pc = "done" /\ ~req.allowed /\ req.op = "get_event_logs"
  /\ Len(store) > 0
  /\ resp.status = "403"

\* C7: with before=T the page holds only rows with timestamp < T, with
\* after=T only rows with timestamp > T; a row at T is in neither.
C7_StrictTimeBounds ==
  (Listing /\ resp.status = "200") =>
    \A i \in 1 .. Len(resp.event_logs) :
      /\ bool_str(req.p.before) =>
           resp.event_logs[i].dttm < parse(Val(req.p.before))
      /\ bool_str(req.p.after) =>
           resp.event_logs[i].dttm > parse(Val(req.p.after))

C7_Witness ==
  /\ Listing /\ resp.status = "200"
  /\ req.p.before = Some("T2")
  /\ \E r \in Range(snap.page) : r.dttm = 2
  /\ Len(resp.event_logs) > 0

\* C8: a request that acquires a session acquires exactly one and has
\* released it when it ends, on the success, Not-Found and Bad-Request
\* paths; its queries run between the two.
C8_SessionReleased ==
  /\ Count(resp.trace, "session_open") <= 1
  /\ pc = "counted" => /\ Count(resp.trace, "session_open") = 1
                       /\ Count(resp.trace, "session_close") = 0
  /\ pc = "done" =>
       /\ Count(resp.trace, "session_close") = Count(resp.trace, "session_open")
       /\ resp.status \in {"200", "404", "400"} =>
            /\ Count(resp.trace, "session_open") = 1
            /\ resp.trace[Len(resp.trace)] = "session_close"
            /\ \A i \in 1 .. Len(resp.trace) :
                 resp.trace[i] \in Queries =>
                   \E j \in 1 .. i - 1 : resp.trace[j] = "session_open"

C8_Witness ==
  /\ Listing /\ resp.status = "400"
  /\ ~sort_allowed(req.p.order_by)
  /\ Count(resp.trace, "session_open") = 1
  /\ resp.trace[Len(resp.trace)] = "session_close"

\* C9: a map_index (try_number) filter of zero is treated as not provided:
\* the response is one the same request without that filter can get.
C9_ZeroFilterIsOmitted ==
  (Listing /\ Static) =>
    /\ req.p.map_index = Some(0) =>
         resp \in get_event_logs(req.allowed, snap.count,
                                 [req.p EXCEPT !.map_index = None])
    /\ req.p.try_number = Some(0) =>
         resp \in get_event_logs(req.allowed, snap.count,
                                 [req.p EXCEPT !.try_number = None])

C9_Witness ==
  /\ Listing /\ Static /\ resp.status = "200"
  /\ req.p.map_index = Some(0)
  /\ \E i \in 1 .. Len(resp.event_logs) :
       resp.event_logs[i].map_index # Some(0)

\* C10: when no row is written between the count query and the page query
\* the page never holds more rows than total_entries (a write between the
\* two can make it hold more: C10_Witness).
C10_PageWithinTotalWhenStatic ==
  (Listing /\ resp.status = "200" /\ Static) =>
    Len(resp.event_logs) <= resp.total_entries

C10_Witness ==
  /\ Listing /\ resp.status = "200"
  /\ ~Static
  /\ Len(resp.event_logs) > resp.total_entries

====
